---- MODULE Spec2Model ----
(***************************************************************************)
(* Filesystem MCP server (src/servers/filesystem/server.py): the cached    *)
(* configuration, the path authorizer, the classifier, the directory       *)
(* walker and the search engine, over a small fixed directory tree.        *)
(*                                                                         *)
(* A path is a sequence of segment names (pathlib's parts without the      *)
(* leading "/"); its string form is a sequence of one-character strings,   *)
(* so that glob matching, suffix extraction and prefix tests work on       *)
(* characters as fnmatch and pathlib do.  "LF" and "CR" stand for the      *)
(* line-feed and carriage-return characters.                               *)
(***************************************************************************)
EXTENDS Integers, Sequences, FiniteSets, TLC

VARIABLES source, config, err, last, reads, writes, seen, pc, tmp, ret

vars == <<source, config, err, last, reads, writes, seen, pc, tmp, ret>>

(***************************************************************************)
(* Bounds of the model.                                                    *)
(***************************************************************************)
MaxDepthArg == 2
MaxResultsArg == 4
MaxLoads == 3

(***************************************************************************)
(* Characters and strings.                                                 *)
(***************************************************************************)
Lower(c) ==
    CASE c = "A" -> "a" [] c = "B" -> "b" [] c = "K" -> "k" [] c = "T" -> "t"
      [] c = "D" -> "d" [] OTHER -> c

LowerStr(s) == [i \in 1..Len(s) |-> Lower(s[i])]

IsSpace(c) == c \in {" ", "LF", "CR"}

IsLineBreak(c) == c \in {"LF", "CR"}

(* s[i..] and s[..n] as Python slices *)
Drop(s, n) == IF n >= Len(s) THEN <<>> ELSE SubSeq(s, n + 1, Len(s))

Take(s, n) == IF n >= Len(s) THEN s ELSE SubSeq(s, 1, n)

(* Python's  sub in s  *)
Contains(s, sub) ==
    \E i \in 0..(Len(s) - Len(sub)) :
        \A j \in 1..Len(sub) : s[i + j] = sub[j]

StartsWith(s, pre) ==
    /\ Len(pre) <= Len(s)
    /\ \A j \in 1..Len(pre) : s[j] = pre[j]

RECURSIVE LStrip(_)
LStrip(s) == IF s # <<>> /\ IsSpace(s[1]) THEN LStrip(Tail(s)) ELSE s

RECURSIVE RStrip(_)
RStrip(s) ==
    IF s # <<>> /\ IsSpace(s[Len(s)]) THEN RStrip(SubSeq(s, 1, Len(s) - 1)) ELSE s

Strip(s) == RStrip(LStrip(s))

(* str.splitlines(): breaks at LF, CR and CR LF; no empty last line.      *)
(* LineEnds are the positions where a line terminator ends.                *)
LineEnds(s) ==
    {i \in 1..Len(s) :
        \/ s[i] = "LF"
        \/ s[i] = "CR" /\ ~(i < Len(s) /\ s[i + 1] = "LF")}

(* the first position of the terminator that ends at i *)
TerminatorStart(s, i) ==
    IF s[i] = "LF" /\ i > 1 /\ s[i - 1] = "CR" THEN i - 1 ELSE i

RECURSIVE SplitFrom(_, _)
SplitFrom(s, from) ==
    LET ends == {i \in LineEnds(s) : i >= from}
    IN  IF ends = {}
        THEN (IF from > Len(s) THEN <<>> ELSE <<SubSeq(s, from, Len(s))>>)
        ELSE LET e == CHOOSE i \in ends : \A j \in ends : i <= j
             IN  <<SubSeq(s, from, TerminatorStart(s, e) - 1)>> \o SplitFrom(s, e + 1)

SplitLines(s) == SplitFrom(s, 1)

Repeat(c, n) == [i \in 1..n |-> c]

(* fnmatch.fnmatch(name, pat) on POSIX: "*" matches any run of characters, *)
(* "/" included; "?" matches one character; the whole name must match.     *)
(* Bracket expressions are not modelled: no pattern here has one.          *)
RECURSIVE FnMatch(_, _)
FnMatch(s, p) ==
    IF p = <<>> THEN s = <<>>
    ELSE IF p[1] = "*"
         THEN \/ FnMatch(s, Tail(p))
              \/ s # <<>> /\ FnMatch(Tail(s), p)
    ELSE /\ s # <<>>
         /\ p[1] = "?" \/ p[1] = s[1]
         /\ FnMatch(Tail(s), Tail(p))

(***************************************************************************)
(* Names and paths.                                                        *)
(***************************************************************************)
Chars(seg) ==
    CASE seg = "r" -> <<"r">>
      [] seg = "re" -> <<"r", "e">>
      [] seg = "s" -> <<"s">>
      [] seg = "h" -> <<"h">>
      [] seg = "q" -> <<"q">>
      [] seg = "d" -> <<"d">>
      [] seg = "f" -> <<"f">>
      [] seg = "l" -> <<"l">>
      [] seg = "ig" -> <<"i", "g">>
      [] seg = "a.t" -> <<"a", ".", "t">>
      [] seg = "b.p" -> <<"b", ".", "p">>
      [] seg = "c.t" -> <<"c", ".", "t">>
      [] seg = "e.t" -> <<"e", ".", "t">>
      [] seg = "g.t" -> <<"g", ".", "t">>
      [] seg = "n.t" -> <<"n", ".", "t">>
      [] seg = "x.t" -> <<"x", ".", "t">>
      [] seg = "y.t" -> <<"y", ".", "t">>
      [] seg = "K.T" -> <<"K", ".", "T">>
      [] seg = "Documents" -> <<"D", "o", "c", "u", "m", "e", "n", "t", "s">>
      [] seg = "projects" -> <<"p", "r", "o", "j", "e", "c", "t", "s">>
      [] seg = ".." -> <<".", ".">>
      [] seg = "~" -> <<"~">>

(* str(path) of an absolute path *)
RECURSIVE PathStr(_)
PathStr(p) ==
    IF p = <<>> THEN <<>> ELSE <<"/">> \o Chars(p[1]) \o PathStr(Tail(p))

Parent(p) == IF p = <<>> THEN <<>> ELSE SubSeq(p, 1, Len(p) - 1)

Name(p) == p[Len(p)]

(* path.suffix: from the last "." of the name, unless that dot is the      *)
(* first or the last character                                             *)
Suffix(p) ==
    LET n == Chars(Name(p))
        dots == {i \in 1..Len(n) : n[i] = "."}
    IN  IF dots = {} THEN <<>>
        ELSE LET i == CHOOSE k \in dots : \A m \in dots : m <= k
             IN  IF 1 < i /\ i < Len(n) THEN SubSeq(n, i, Len(n)) ELSE <<>>

(* resolved.is_relative_to(allowed): allowed's parts are a prefix of       *)
(* resolved's parts                                                        *)
IsRelativeTo(p, base) ==
    /\ Len(base) <= Len(p)
    /\ SubSeq(p, 1, Len(base)) = base

(* item.relative_to(dir_path) *)
RelativeTo(p, base) == Drop(p, Len(base))

(***************************************************************************)
(* The directory tree.  Children are listed in sorted order, the order of  *)
(* sorted(path.iterdir()).                                                 *)
(***************************************************************************)
Home == <<"h">>

LongLineLen == 203

Dir(children) == [kind |-> "dir", children |-> children, target |-> <<>>, content |-> <<>>]

File(content) == [kind |-> "file", children |-> <<>>, target |-> <<>>, content |-> content]

Link(target) == [kind |-> "link", children |-> <<>>, target |-> target, content |-> <<>>]

Absent == [kind |-> "none", children |-> <<>>, target |-> <<>>, content |-> <<>>]

(* lstat of a literal path: no symlink is followed *)
Node(p) ==
    CASE p = <<>> -> Dir(<<"h", "r", "re", "s">>)
      [] p = <<"h">> -> Dir(<<"Documents">>)
      [] p = <<"h", "Documents">> -> Dir(<<>>)
      [] p = <<"r">> -> Dir(<<"a.t", "b.p", "d", "ig", "l">>)
      [] p = <<"r", "a.t">> ->
            File(<<"a", "B", "LF", " ", "b", " ", "a", " ", "CR", "LF", "x">>)
      [] p = <<"r", "b.p">> -> File(<<"a">>)
      [] p = <<"r", "d">> -> Dir(<<"e.t", "f">>)
      [] p = <<"r", "d", "e.t">> -> File(<<"a", "LF", "b">>)
      [] p = <<"r", "d", "f">> -> Dir(<<"g.t">>)
      [] p = <<"r", "d", "f", "g.t">> ->
            File(<<"a", "LF", "A", "LF", "x", "LF", "a", "CR", "a", "LF", "a",
                   "LF", "a", "LF", "a">>)
      [] p = <<"r", "ig">> -> Dir(<<"c.t">>)
      [] p = <<"r", "ig", "c.t">> -> File(<<"a">>)
      [] p = <<"r", "l">> -> Link(<<"re">>)
      [] p = <<"re">> -> Dir(<<"x.t">>)
      [] p = <<"re", "x.t">> -> File(<<"a">>)
      [] p = <<"s">> -> Dir(<<"K.T", "y.t">>)
      [] p = <<"s", "K.T">> -> File(<<>>)
      [] p = <<"s", "y.t">> -> File(<<" ", " ">> \o Repeat("a", LongLineLen) \o <<" ">>)
      [] OTHER -> Absent

(* Path(x).expanduser() *)
Expanduser(p) == IF p # <<>> /\ p[1] = "~" THEN Home \o Tail(p) ELSE p

(* Path.resolve(): ".." steps to the parent of the resolved prefix, an     *)
(* existing symlink is replaced by its target, a missing tail is kept      *)
RECURSIVE ResolveFrom(_, _)
ResolveFrom(cur, rest) ==
    IF rest = <<>> THEN cur
    ELSE IF rest[1] = ".." THEN ResolveFrom(Parent(cur), Tail(rest))
    ELSE LET nxt == Append(cur, rest[1])
         IN  IF Node(nxt).kind = "link"
             THEN ResolveFrom(Node(nxt).target, Tail(rest))
             ELSE ResolveFrom(nxt, Tail(rest))

Resolve(p) == ResolveFrom(<<>>, p)

(* stat of a path: symlinks are followed *)
Stat(p) == Node(Resolve(p))

Exists(p) == Stat(p).kind # "none"

IsFile(p) == Stat(p).kind = "file"

IsDir(p) == Stat(p).kind = "dir"

(* path.iterdir(), sorted *)
Iterdir(p) == [i \in 1..Len(Stat(p).children) |-> Append(p, Stat(p).children[i])]

(***************************************************************************)
(* Configuration values.  A value is a dict (a function from keys to       *)
(* lists), None, or a list; yaml.safe_load gives None for an empty         *)
(* document and a list for a sequence document, and raises on a document   *)
(* that is not YAML.                                                       *)
(***************************************************************************)
NoItems == [k \in {} |-> <<>>]

PyNone == [type |-> "None", items |-> NoItems]

PyList == [type |-> "list", items |-> NoItems]

PyDict(items) == [type |-> "dict", items |-> items]

DefaultConfig ==
    PyDict([allowed_directories |-> << <<"~", "Documents">>, <<"~", "projects">> >>,
            ignore_patterns |->
                << <<"*", "/", "n", "o", "d", "e", "_", "m", "o", "d", "u", "l", "e", "s", "/", "*">>,
                   <<"*", "/", ".", "g", "i", "t", "/", "*">>,
                   <<"*", "/", "_", "_", "p", "y", "c", "a", "c", "h", "e", "_", "_", "/", "*">>,
                   <<"*", ".", "p", "y", "c">>,
                   <<"*", "/", ".", "e", "n", "v">>,
                   <<"*", "/", "v", "e", "n", "v", "/", "*">>,
                   <<"*", "/", ".", "v", "e", "n", "v", "/", "*">> >>,
            supported_extensions |->
                << <<".", "p", "y">>, <<".", "m", "d">>, <<".", "t", "x", "t">>,
                   <<".", "j", "s">>, <<".", "t", "s">>, <<".", "j", "s", "o", "n">>,
                   <<".", "y", "a", "m", "l">>, <<".", "y", "m", "l">>,
                   <<".", "h", "t", "m", "l">>, <<".", "c", "s", "s">>,
                   <<".", "s", "h">>, <<".", "t", "o", "m", "l">>,
                   <<".", "r", "s", "t">>, <<".", "i", "n", "i">>,
                   <<".", "c", "f", "g">> >>])

(* config.yaml documents: two full mappings, one without                   *)
(* allowed_directories, one without ignore_patterns                        *)
YamlFull ==
    PyDict([allowed_directories |-> << <<"r">>, <<"s">>, <<"q">> >>,
            ignore_patterns |-> << <<"*", "/", "i", "g", "/", "*">> >>,
            supported_extensions |-> << <<".", "t">> >>])

YamlOther ==
    PyDict([allowed_directories |-> << <<"s">>, <<"r", "d">> >>,
            ignore_patterns |-> << <<"*", ".", "p">>, <<"*", "/", "f", "/", "?", ".", "t">> >>,
            supported_extensions |-> << <<".", "p">>, <<".", "t">> >>])

YamlNoDirs ==
    PyDict([ignore_patterns |-> << <<"*", "/", "i", "g", "/", "*">> >>,
            supported_extensions |-> << <<".", "t">> >>])

YamlNoIgnore ==
    PyDict([allowed_directories |-> << <<"r">> >>,
            supported_extensions |-> << <<".", "t">> >>])

Missing == [exists |-> FALSE, valid |-> FALSE, doc |-> PyNone]

Yaml(doc) == [exists |-> TRUE, valid |-> TRUE, doc |-> doc]

NotYaml == [exists |-> TRUE, valid |-> FALSE, doc |-> PyNone]

MappingSources == {Missing, Yaml(YamlFull), Yaml(YamlOther), Yaml(YamlNoDirs), Yaml(YamlNoIgnore)}

AnySources == MappingSources \cup {Yaml(PyNone), Yaml(PyList), NotYaml}

RequiredKeys == {"allowed_directories", "ignore_patterns", "supported_extensions"}

(* load_config(): what one call does to the cache, given the cache and the *)
(* config source at the time of the call                                   *)
load_config(cache, src) ==
    IF cache = PyNone
    THEN IF src.exists
         THEN IF src.valid
              THEN [raised |-> FALSE, value |-> src.doc, cache |-> src.doc,
                    read |-> 1, wrote |-> 1]
              ELSE [raised |-> TRUE, value |-> PyNone, cache |-> cache,
                    read |-> 1, wrote |-> 0]
         ELSE [raised |-> FALSE, value |-> DefaultConfig, cache |-> DefaultConfig,
               read |-> 0, wrote |-> 1]
    ELSE [raised |-> FALSE, value |-> cache, cache |-> cache, read |-> 0, wrote |-> 0]

(* config.get(key, []) *)
Get(cfg, key) == IF key \in DOMAIN cfg.items THEN cfg.items[key] ELSE <<>>

Range(seq) == {seq[i] : i \in 1..Len(seq)}

(***************************************************************************)
(* Path authorizer and classifier.                                         *)
(***************************************************************************)
get_allowed_directories(cfg) ==
    LET dirs == Get(cfg, "allowed_directories")
        resolved == [i \in 1..Len(dirs) |-> Resolve(Expanduser(dirs[i]))]
        Keep(path) == Exists(path) /\ IsDir(path)
    IN  SelectSeq(resolved, Keep)

(* the containment test done on the string forms instead of the parts *)
is_allowed_path_string_prefix(cfg, path) ==
    LET resolved == Resolve(path)
    IN  \E allowed \in Range(get_allowed_directories(cfg)) :
            StartsWith(PathStr(resolved), PathStr(allowed))

is_allowed_path(cfg, path) ==
    LET resolved == Resolve(path)
    IN  \E allowed \in Range(get_allowed_directories(cfg)) :
            resolved = allowed \/ IsRelativeTo(resolved, allowed)

(* the patterns matched against the file name instead of the whole path *)
should_ignore_name_only(cfg, path) ==
    \E pattern \in Range(Get(cfg, "ignore_patterns")) : FnMatch(Chars(Name(path)), pattern)

should_ignore(cfg, path) ==
    \E pattern \in Range(Get(cfg, "ignore_patterns")) : FnMatch(PathStr(path), pattern)

is_supported_file(cfg, path) ==
    LowerStr(Suffix(path)) \in Range(Get(cfg, "supported_extensions"))

(***************************************************************************)
(* Failures of the file system.  An error e names at most one node and how *)
(* the system calls on it fail:                                            *)
(*   EACCES      stat raises PermissionError (is_file, is_dir, exists),    *)
(*               and so does listing it when it is a directory             *)
(*   EIO         stat raises an OSError that is no PermissionError         *)
(*   vanish      is_file succeeds, the later stat or read_text raises      *)
(*               FileNotFoundError                                         *)
(*   unreadable  read_text raises PermissionError, stat succeeds           *)
(*   nolist      listing the directory raises PermissionError              *)
(***************************************************************************)
NoErr == [node |-> <<>>, kind |-> "none"]

FileErrNodes == {<<"r", "a.t">>, <<"r", "d", "e.t">>, <<"re", "x.t">>, <<"s", "K.T">>}

DirErrNodes == {<<"r", "d">>, <<"r", "d", "f">>}

Errs ==
    {NoErr}
      \cup [node : FileErrNodes, kind : {"EACCES", "EIO", "vanish", "unreadable"}]
      \cup [node : DirErrNodes, kind : {"EACCES", "EIO", "nolist"}]

Hits(e, path) == e.kind # "none" /\ Resolve(path) = e.node

(* the exception Path.is_file / is_dir / exists raise on path, "" if none *)
StatCheckRaises(e, path) ==
    IF Hits(e, path) /\ e.kind = "EACCES" THEN "PermissionError"
    ELSE IF Hits(e, path) /\ e.kind = "EIO" THEN "OSError"
    ELSE ""

(* path.stat() after a successful is_file / exists *)
StatRaises(e, path) == Hits(e, path) /\ e.kind = "vanish"

(* path.read_text() after a successful is_file *)
ReadTextRaises(e, path) == Hits(e, path) /\ e.kind \in {"vanish", "unreadable"}

IterdirRaises(e, path) == Hits(e, path) /\ e.kind \in {"nolist", "EACCES"}

Raise(kind) == [outcome |-> kind, value |-> <<>>]

Return(value) == [outcome |-> "ok", value |-> value]

(***************************************************************************)
(* read_file, read_file_resource, get_file_info.  cfg is the value         *)
(* load_config() returns during the call.                                  *)
(***************************************************************************)
read_file(cfg, e, file_path) ==
    LET path == Resolve(Expanduser(file_path))
    IN  IF ~is_allowed_path(cfg, path) THEN Raise("AccessDenied")
        ELSE IF StatCheckRaises(e, path) # "" THEN Raise(StatCheckRaises(e, path))
        ELSE IF ~Exists(path) THEN Raise("NotFound")
        ELSE IF ~IsFile(path) THEN Raise("NotAFile")
        ELSE IF should_ignore(cfg, path) THEN Raise("Ignored")
        ELSE IF ~is_supported_file(cfg, path) THEN Raise("UnsupportedType")
        ELSE IF StatRaises(e, path) \/ ReadTextRaises(e, path) THEN Raise("OSError")
        ELSE Return(<<[path |-> path, name |-> Name(path),
                       content |-> Stat(path).content,
                       size |-> Len(Stat(path).content),
                       lines |-> Len(SplitLines(Stat(path).content)),
                       extension |-> Suffix(path)]>>)

read_file_resource(cfg, e, raw) ==
    LET file_path == Resolve(raw)
    IN  IF ~is_allowed_path(cfg, file_path) THEN Raise("AccessDenied")
        ELSE IF StatCheckRaises(e, file_path) # "" THEN Raise(StatCheckRaises(e, file_path))
        ELSE IF ~Exists(file_path) THEN Raise("NotFound")
        ELSE IF ~IsFile(file_path) THEN Raise("NotAFile")
        ELSE IF should_ignore(cfg, file_path) THEN Raise("Ignored")
        ELSE IF ReadTextRaises(e, file_path) THEN Raise("OSError")
        ELSE Return(<<[path |-> file_path, content |-> Stat(file_path).content]>>)

get_file_info(cfg, e, file_path) ==
    LET path == Resolve(Expanduser(file_path))
    IN  IF ~is_allowed_path(cfg, path) THEN Raise("AccessDenied")
        ELSE IF StatCheckRaises(e, path) # "" THEN Raise(StatCheckRaises(e, path))
        ELSE IF ~Exists(path) THEN Raise("NotFound")
        ELSE IF StatRaises(e, path) THEN Raise("OSError")
        ELSE Return(<<[path |-> path, name |-> Name(path), extension |-> Suffix(path),
                       size |-> Len(Stat(path).content),
                       is_file |-> IsFile(path), is_directory |-> IsDir(path),
                       is_supported |-> IsFile(path) /\ is_supported_file(cfg, path)]>>)

(***************************************************************************)
(* list_directory.  A scan gives the entries it appended and the exception *)
(* that left it, "" if none.                                               *)
(***************************************************************************)
FileEntry(item, dir_path) ==
    [name |-> Name(item), path |-> item, relative_path |-> RelativeTo(item, dir_path),
     type |-> "file", size |-> Len(Stat(item).content), extension |-> Suffix(item)]

DirEntry(item, dir_path) ==
    [name |-> Name(item), path |-> item, relative_path |-> RelativeTo(item, dir_path),
     type |-> "directory"]

Scanned(files, exc) == [files |-> files, exc |-> exc]

(* the depth test one level late, and one level early *)
DepthExceededLate(current_depth, max_depth) == current_depth > max_depth + 1

DepthExceededEarly(current_depth, max_depth) == current_depth >= max_depth

(* current_depth > max_depth: the scan returns at once *)
DepthExceeded(current_depth, max_depth) == current_depth > max_depth

RECURSIVE scan_directory(_, _, _)
RECURSIVE scan_items(_, _, _)

(* the body of the for loop over sorted(path.iterdir()), from item on *)
scan_items(ctx, items, current_depth) ==
    IF items = <<>> THEN Scanned(<<>>, "")
    ELSE
      LET item == Head(items)
          rest == scan_items(ctx, Tail(items), current_depth)
      IN  IF should_ignore(ctx.cfg, item) THEN rest
          ELSE IF StatCheckRaises(ctx.e, item) # "" THEN Scanned(<<>>, StatCheckRaises(ctx.e, item))
          ELSE IF IsFile(item) /\ is_supported_file(ctx.cfg, item)
               THEN IF StatRaises(ctx.e, item) THEN rest
                    ELSE Scanned(<<FileEntry(item, ctx.dir_path)>> \o rest.files, rest.exc)
          ELSE IF IsDir(item) /\ ctx.recursive
               THEN LET sub == scan_directory(ctx, item, current_depth + 1)
                    IN  IF sub.exc # ""
                        THEN Scanned(<<DirEntry(item, ctx.dir_path)>> \o sub.files, sub.exc)
                        ELSE Scanned(<<DirEntry(item, ctx.dir_path)>> \o sub.files \o rest.files,
                                     rest.exc)
          ELSE IF IsDir(item) /\ ~ctx.recursive
               THEN Scanned(<<DirEntry(item, ctx.dir_path)>> \o rest.files, rest.exc)
          ELSE rest

(* except PermissionError: pass  ends the scan of this directory only *)
scan_directory(ctx, path, current_depth) ==
    IF DepthExceeded(current_depth, ctx.max_depth) THEN Scanned(<<>>, "")
    ELSE IF IterdirRaises(ctx.e, path) THEN Scanned(<<>>, "")
    ELSE LET r == scan_items(ctx, Iterdir(path), current_depth)
         IN  IF r.exc = "PermissionError" THEN Scanned(r.files, "") ELSE r

list_directory(cfg, e, directory, recursive, max_depth) ==
    LET dir_path == Resolve(Expanduser(directory))
        ctx == [cfg |-> cfg, e |-> e, dir_path |-> dir_path, recursive |-> recursive,
                max_depth |-> max_depth]
    IN  IF ~is_allowed_path(cfg, dir_path) THEN Raise("AccessDenied")
        ELSE IF StatCheckRaises(e, dir_path) # "" THEN Raise(StatCheckRaises(e, dir_path))
        ELSE IF ~Exists(dir_path) THEN Raise("NotFound")
        ELSE IF ~IsDir(dir_path) THEN Raise("NotADirectory")
        ELSE LET r == scan_directory(ctx, dir_path, 0)
             IN  IF r.exc # "" THEN Raise(r.exc) ELSE Return(r.files)

(***************************************************************************)
(* search_files.                                                           *)
(***************************************************************************)
MaxMatchingLines == 5

MaxLineContent == 200

(* os.scandir(path) as pathlib's selectors use it: a PermissionError ends  *)
(* the selector silently                                                   *)
Scandir(e, path) == IF IterdirRaises(e, path) THEN <<>> ELSE Iterdir(path)

(* _RecursiveWildcardSelector._iterate_directories: the directory, then    *)
(* its subdirectories in preorder; a symlink to a directory is not entered *)
RECURSIVE IterateDirectories(_, _)
RECURSIVE IterateEntries(_, _)
IterateEntries(e, entries) ==
    IF entries = <<>> THEN <<>>
    ELSE IF Node(Head(entries)).kind = "dir"
         THEN IterateDirectories(e, Head(entries)) \o IterateEntries(e, Tail(entries))
    ELSE IterateEntries(e, Tail(entries))

IterateDirectories(e, parent_path) == <<parent_path>> \o IterateEntries(e, Scandir(e, parent_path))

(* _WildcardSelector._select_from: the entries whose name matches *)
SelectFrom(e, parent_path, pattern) ==
    LET Matches(entry) == FnMatch(Chars(Name(entry)), pattern)
    IN  SelectSeq(Scandir(e, parent_path), Matches)

RECURSIVE SelectAll(_, _, _)
SelectAll(e, starts, pattern) ==
    IF starts = <<>> THEN <<>>
    ELSE SelectFrom(e, Head(starts), pattern) \o SelectAll(e, Tail(starts), pattern)

(* search_dir.rglob(pattern), pattern a wildcard pattern without "/" *)
Rglob(e, search_dir, pattern) ==
    IF ~IsDir(search_dir) THEN <<>>
    ELSE SelectAll(e, IterateDirectories(e, search_dir), pattern)

(* the matching lines of content: 1-indexed line number, stripped line cut *)
(* to MaxLineContent characters, at most MaxMatchingLines of them          *)
RECURSIVE MatchLinesFrom(_, _, _, _)
MatchLinesFrom(lines, i, query, found) ==
    IF i > Len(lines) \/ Len(found) >= MaxMatchingLines THEN found
    ELSE IF Contains(LowerStr(lines[i]), LowerStr(query))
         THEN MatchLinesFrom(lines, i + 1, query,
                  Append(found, [line_number |-> i,
                                 content |-> Take(Strip(lines[i]), MaxLineContent)]))
    ELSE MatchLinesFrom(lines, i + 1, query, found)

matching_lines(content, content_search) ==
    MatchLinesFrom(SplitLines(content), 1, content_search, <<>>)

(* if content_search.lower() not in content.lower(): continue *)
ContentHasQuery(content, content_search) ==
    Contains(LowerStr(content), LowerStr(content_search))

ContentResult(file_path, content_search) ==
    [path |-> file_path, name |-> Name(file_path), extension |-> Suffix(file_path),
     matches |-> matching_lines(Stat(file_path).content, content_search)]

NameResult(file_path) ==
    [path |-> file_path, name |-> Name(file_path), extension |-> Suffix(file_path),
     size |-> Len(Stat(file_path).content)]

Searched(results, exc) == [results |-> results, exc |-> exc]

(* the cap tested with > instead of >= *)
CapReachedLate(results, max_results) == Len(results) > max_results

(* if len(results) >= max_results: break *)
CapReached(results, max_results) == Len(results) >= max_results

(* the loop over search_dir.rglob(pattern), from the candidates cands on *)
RECURSIVE search_candidates(_, _, _)
search_candidates(ctx, cands, results) ==
    IF cands = <<>> THEN Searched(results, "")
    ELSE IF CapReached(results, ctx.max_results) THEN Searched(results, "")
    ELSE
      LET file_path == Head(cands)
          skip == search_candidates(ctx, Tail(cands), results)
      IN  IF StatCheckRaises(ctx.e, file_path) # "" THEN Searched(results, StatCheckRaises(ctx.e, file_path))
          ELSE IF ~IsFile(file_path) THEN skip
          ELSE IF should_ignore(ctx.cfg, file_path) THEN skip
          ELSE IF ~is_supported_file(ctx.cfg, file_path) THEN skip
          ELSE IF ctx.content_search # <<>>
               THEN IF ReadTextRaises(ctx.e, file_path) THEN skip
                    ELSE IF ~ContentHasQuery(Stat(file_path).content, ctx.content_search)
                         THEN skip
                    ELSE search_candidates(ctx, Tail(cands),
                             Append(results, ContentResult(file_path, ctx.content_search)))
          ELSE IF StatRaises(ctx.e, file_path) THEN skip
          ELSE search_candidates(ctx, Tail(cands), Append(results, NameResult(file_path)))

(* the loop over search_dirs: a PermissionError leaves the current root,   *)
(* any other exception leaves the call                                     *)
RECURSIVE search_dirs(_, _, _)
search_dirs(ctx, dirs, results) ==
    IF dirs = <<>> THEN Searched(results, "")
    ELSE
      LET search_dir == Head(dirs)
      IN  IF StatCheckRaises(ctx.e, search_dir) # "" THEN Searched(results, StatCheckRaises(ctx.e, search_dir))
          ELSE IF ~Exists(search_dir) THEN search_dirs(ctx, Tail(dirs), results)
          ELSE LET r == search_candidates(ctx, Rglob(ctx.e, search_dir, ctx.pattern), results)
               IN  IF r.exc = "PermissionError" THEN search_dirs(ctx, Tail(dirs), r.results)
                   ELSE IF r.exc # "" THEN r
                   ELSE IF CapReached(r.results, ctx.max_results) THEN r
                   ELSE search_dirs(ctx, Tail(dirs), r.results)

NoDirectory == <<"">>

search_files(cfg, e, pattern, directory, content_search, max_results) ==
    LET ctx == [cfg |-> cfg, e |-> e, pattern |-> pattern, content_search |-> content_search,
                max_results |-> max_results]
        dir_path == Resolve(Expanduser(directory))
    IN  IF directory # NoDirectory /\ ~is_allowed_path(cfg, dir_path)
        THEN Raise("AccessDenied")
        ELSE LET dirs == IF directory # NoDirectory THEN <<dir_path>>
                         ELSE get_allowed_directories(cfg)
                 r == search_dirs(ctx, dirs, <<>>)
             IN  IF r.exc # "" THEN Raise(r.exc) ELSE Return(r.results)

(***************************************************************************)
(* The server: one action per exposed operation.  Every operation calls    *)
(* load_config() first (through get_allowed_directories), so it runs on    *)
(* the value that call returns and leaves the cache as that call leaves    *)
(* it.  An operation runs to completion and its response is sent before    *)
(* the next request is taken.                                              *)
(***************************************************************************)
Threads == {1, 2}

NoCall == [op |-> "none", args |-> <<>>, outcome |-> "none", value |-> <<>>]

RawPaths ==
    { <<"r">>, <<"r", "a.t">>, <<"r", "b.p">>, <<"r", "ig">>, <<"r", "ig", "c.t">>,
      <<"r", "d">>, <<"r", "d", "e.t">>, <<"r", "d", "f">>, <<"r", "n.t">>,
      <<"r", "l">>, <<"r", "l", "x.t">>, <<"r", "..", "re", "x.t">>, <<"r", "..", "q">>,
      <<"r", "ig", "..", "a.t">>, <<"re">>, <<"re", "x.t">>, <<"re", "n.t">>, <<"q">>,
      <<"s">>, <<"s", "K.T">>, <<"s", "y.t">>, <<"h">>, <<"~", "Documents">> }

DirArgs ==
    { <<"r">>, <<"r", "a.t">>, <<"r", "ig">>, <<"r", "d">>, <<"r", "d", "f">>, <<"r", "l">>,
      <<"r", "..", "re">>, <<"re">>, <<"q">>, <<"s">>, <<"~", "Documents">> }

PatternArgs == { <<"*", ".", "t">>, <<"*">> }

QueryArgs == { <<>>, <<"a">>, <<"A", "b">>, <<"a", "LF", "b">>, <<" ">>, <<"x">> }

Call(op, args, result) ==
    [op |-> op, args |-> args, outcome |-> result.outcome, value |-> result.value]

(* the load_config() call that opens an operation *)
Loaded(L) ==
    /\ ~L.raised
    /\ config' = L.cache
    /\ reads' = reads + L.read
    /\ writes' = writes + L.wrote
    /\ UNCHANGED <<source, err, seen, pc, tmp, ret>>

Idle == last = NoCall

ReadFile ==
    /\ Idle
    /\ \E file_path \in RawPaths :
        LET L == load_config(config, source)
        IN  /\ Loaded(L)
            /\ last' = Call("read_file", [path |-> file_path], read_file(L.value, err, file_path))

ReadFileResource ==
    /\ Idle
    /\ \E path \in RawPaths :
        LET L == load_config(config, source)
        IN  /\ Loaded(L)
            /\ last' = Call("read_file_resource", [path |-> path],
                            read_file_resource(L.value, err, path))

GetFileInfo ==
    /\ Idle
    /\ \E file_path \in RawPaths :
        LET L == load_config(config, source)
        IN  /\ Loaded(L)
            /\ last' = Call("get_file_info", [path |-> file_path],
                            get_file_info(L.value, err, file_path))

ListAllowedDirectories ==
    /\ Idle
    /\ LET L == load_config(config, source)
       IN  /\ Loaded(L)
           /\ last' = Call("list_allowed_directories", <<>>,
                           Return(get_allowed_directories(L.value)))

ListDirectory ==
    /\ Idle
    /\ \E directory \in DirArgs, recursive \in BOOLEAN, max_depth \in (-1)..MaxDepthArg :
        LET L == load_config(config, source)
        IN  /\ Loaded(L)
            /\ last' = Call("list_directory",
                            [path |-> directory, recursive |-> recursive,
                             max_depth |-> max_depth],
                            list_directory(L.value, err, directory, recursive, max_depth))

SearchFiles ==
    /\ Idle
    /\ \E pattern \in PatternArgs, directory \in DirArgs \cup {NoDirectory},
          content_search \in QueryArgs, max_results \in 0..MaxResultsArg :
        LET L == load_config(config, source)
        IN  /\ Loaded(L)
            /\ last' = Call("search_files",
                            [path |-> directory, pattern |-> pattern,
                             content_search |-> content_search,
                             max_results |-> max_results],
                            search_files(L.value, err, pattern, directory, content_search,
                                         max_results))

Respond ==
    /\ ~Idle
    /\ last' = NoCall
    /\ UNCHANGED <<source, config, err, reads, writes, seen, pc, tmp, ret>>

Init ==
    /\ source \in MappingSources
    /\ config = PyNone
    /\ err \in Errs
    /\ last = NoCall
    /\ reads = 0
    /\ writes = 0
    /\ seen = <<>>
    /\ pc = [t \in Threads |-> "idle"]
    /\ tmp = [t \in Threads |-> PyNone]
    /\ ret = [t \in Threads |-> PyNone]

Next ==
    \/ ReadFile
    \/ ReadFileResource
    \/ GetFileInfo
    \/ ListAllowedDirectories
    \/ ListDirectory
    \/ SearchFiles
    \/ Respond

Spec == Init /\ [][Next]_vars

(***************************************************************************)
(* The Config Provider alone, called in sequence: load_config() calls      *)
(* while the config source is created, removed and rewritten between them. *)
(* seen is the list of the calls made, each with what it returned, what it *)
(* left in the cache and whether it read the source and wrote the cache.   *)
(***************************************************************************)
LoadConfig ==
    /\ Len(seen) < MaxLoads
    /\ LET L == load_config(config, source)
       IN  /\ config' = L.cache
           /\ reads' = reads + L.read
           /\ writes' = writes + L.wrote
           /\ seen' = Append(seen, L)
    /\ UNCHANGED <<source, err, last, pc, tmp, ret>>

ChangeSource ==
    /\ \E s \in AnySources : s # source /\ source' = s
    /\ UNCHANGED <<config, err, last, reads, writes, seen, pc, tmp, ret>>

InitLoad ==
    /\ source \in AnySources
    /\ config = PyNone
    /\ err = NoErr
    /\ last = NoCall
    /\ reads = 0
    /\ writes = 0
    /\ seen = <<>>
    /\ pc = [t \in Threads |-> "idle"]
    /\ tmp = [t \in Threads |-> PyNone]
    /\ ret = [t \in Threads |-> PyNone]

NextLoad ==
    \/ LoadConfig
    \/ ChangeSource

SpecLoad == InitLoad /\ [][NextLoad]_vars

(***************************************************************************)
(* The Config Provider called by concurrent requests: each thread runs     *)
(* load_config() once, a step per statement, and the threads interleave    *)
(* between statements.  The source is absent or a full mapping, so that    *)
(* every call made alone succeeds with a Configuration.                    *)
(***************************************************************************)
FullSources == {Missing, Yaml(YamlFull), Yaml(YamlOther)}

Goto(t, label) == pc' = [pc EXCEPT ![t] = label]

(* a request enters load_config() *)
Enter(t) ==
    /\ pc[t] = "idle"
    /\ Goto(t, "check")
    /\ UNCHANGED <<source, config, err, last, reads, writes, seen, tmp, ret>>

(* if _config is None: *)
CheckCache(t) ==
    /\ pc[t] = "check"
    /\ Goto(t, IF config = PyNone THEN "exists" ELSE "return")
    /\ UNCHANGED <<source, config, err, last, reads, writes, seen, tmp, ret>>

(* if CONFIG_PATH.exists(): *)
CheckExists(t) ==
    /\ pc[t] = "exists"
    /\ Goto(t, IF source.exists THEN "open" ELSE "default")
    /\ UNCHANGED <<source, config, err, last, reads, writes, seen, tmp, ret>>

(* with open(CONFIG_PATH) as f: yaml.safe_load(f); open raises when the    *)
(* file was removed after the exists() test                                *)
ReadSource(t) ==
    /\ pc[t] = "open"
    /\ IF source.exists /\ source.valid
       THEN /\ tmp' = [tmp EXCEPT ![t] = source.doc]
            /\ reads' = reads + 1
            /\ Goto(t, "store")
       ELSE /\ Goto(t, "raised")
            /\ UNCHANGED <<tmp, reads>>
    /\ UNCHANGED <<source, config, err, last, writes, seen, ret>>

(* _config = <the loaded document> *)
StoreLoaded(t) ==
    /\ pc[t] = "store"
    /\ config' = tmp[t]
    /\ writes' = writes + 1
    /\ Goto(t, "return")
    /\ UNCHANGED <<source, err, last, reads, seen, tmp, ret>>

(* _config = {the built-in default} *)
StoreDefault(t) ==
    /\ pc[t] = "default"
    /\ config' = DefaultConfig
    /\ writes' = writes + 1
    /\ Goto(t, "return")
    /\ UNCHANGED <<source, err, last, reads, seen, tmp, ret>>

(* return _config *)
ReturnConfig(t) ==
    /\ pc[t] = "return"
    /\ ret' = [ret EXCEPT ![t] = config]
    /\ Goto(t, "done")
    /\ UNCHANGED <<source, config, err, last, reads, writes, seen, tmp>>

(* the script entry point prints get_allowed_directories() before           *)
(* mcp.run(): a load_config() made before any request is served; a host    *)
(* that imports the module makes no such call                              *)
Startup ==
    /\ \A t \in Threads : pc[t] = "idle"
    /\ config = PyNone
    /\ LET L == load_config(config, source)
       IN  /\ config' = L.cache
           /\ reads' = reads + L.read
           /\ writes' = writes + L.wrote
    /\ UNCHANGED <<source, err, last, seen, pc, tmp, ret>>

ReplaceSource ==
    /\ \E s \in FullSources : s # source /\ source' = s
    /\ UNCHANGED <<config, err, last, reads, writes, seen, pc, tmp, ret>>

InitConc ==
    /\ source \in FullSources
    /\ config = PyNone
    /\ err = NoErr
    /\ last = NoCall
    /\ reads = 0
    /\ writes = 0
    /\ seen = <<>>
    /\ pc = [t \in Threads |-> "idle"]
    /\ tmp = [t \in Threads |-> PyNone]
    /\ ret = [t \in Threads |-> PyNone]

NextConc ==
    \/ \E t \in Threads :
          \/ Enter(t)
          \/ CheckCache(t)
          \/ CheckExists(t)
          \/ ReadSource(t)
          \/ StoreLoaded(t)
          \/ StoreDefault(t)
          \/ ReturnConfig(t)
    \/ Startup
    \/ ReplaceSource

SpecConc == InitConc /\ [][NextConc]_vars

(***************************************************************************)
(* Properties of the operations, on the response of the last call.  The    *)
(* cache holds the configuration the call ran on.                          *)
(***************************************************************************)
DefaultMaxDepth == 3

DefaultMaxResults == 50

Roots == Range(get_allowed_directories(config))

(* the resolved form of the path argument of a call *)
ResolvedArg(call) ==
    IF call.op = "read_file_resource" THEN Resolve(call.args.path)
    ELSE Resolve(Expanduser(call.args.path))

TakesPath(call) ==
    \/ call.op \in {"read_file", "read_file_resource", "get_file_info", "list_directory"}
    \/ call.op = "search_files" /\ call.args.path # NoDirectory

(* p is root or one of its descendants, part by part *)
Within(p, root) ==
    /\ Len(root) <= Len(p)
    /\ \A i \in 1..Len(root) : p[i] = root[i]

Outside(p) == \A root \in Roots : ~Within(p, root)

MatchesIgnorePattern(p) ==
    \E i \in 1..Len(Get(config, "ignore_patterns")) :
        FnMatch(PathStr(p), Get(config, "ignore_patterns")[i])

Depth(entry) == Len(entry.relative_path)

Ok(call) == call.outcome = "ok"

(* C1: a call whose path argument resolves outside every allowed root      *)
(* fails with AccessDenied, whether the path exists or not and whatever    *)
(* a stat of it would do.                                                  *)
C1_OutsidePathsDenied ==
    (TakesPath(last) /\ Outside(ResolvedArg(last))) => last.outcome = "AccessDenied"

(* read_file of the existing file /re/x.t, a sibling of the root /r that   *)
(* shares its string prefix, is denied                                     *)
C1_Witness ==
    /\ last.op = "read_file"
    /\ last.args.path = <<"re", "x.t">>
    /\ <<"r">> \in Roots
    /\ Exists(<<"re", "x.t">>)
    /\ last.outcome = "AccessDenied"

(* C2 as stated: a recursive listing with max_depth = N >= 0 returns no    *)
(* entry deeper than N below the listed directory (its children are at     *)
(* depth 1).                                                               *)
C2_DepthAtMostMaxDepth ==
    (last.op = "list_directory" /\ last.args.recursive /\ last.args.max_depth >= 0
        /\ Ok(last))
    => \A i \in 1..Len(last.value) : Depth(last.value[i]) <= last.args.max_depth

(* C2 amended: a recursive listing with max_depth = N >= 0 returns no      *)
(* entry deeper than N + 1 below the listed directory.                     *)
C2_DepthAtMostMaxDepthPlusOne ==
    (last.op = "list_directory" /\ last.args.recursive /\ last.args.max_depth >= 0
        /\ Ok(last))
    => \A i \in 1..Len(last.value) : Depth(last.value[i]) <= last.args.max_depth + 1

(* a recursive listing of /r with max_depth 1 that returns /r/d/f, at      *)
(* depth 2, and not the supported file /r/d/f/g.t below it                 *)
C2_Witness ==
    /\ last.op = "list_directory"
    /\ last.args.recursive
    /\ last.args.max_depth = 1
    /\ Ok(last)
    /\ \E i \in 1..Len(last.value) : last.value[i].path = <<"r", "d", "f">>
    /\ is_supported_file(config, <<"r", "d", "f", "g.t">>)
    /\ ~should_ignore(config, <<"r", "d", "f", "g.t">>)
    /\ \A i \in 1..Len(last.value) : last.value[i].path # <<"r", "d", "f", "g.t">>

(* the direct children a listing of dir_path is to return when no system   *)
(* call fails: not ignored, and a supported file or a directory            *)
DirectChildren(dir_path) ==
    {c \in Range(Iterdir(dir_path)) :
        /\ ~MatchesIgnorePattern(c)
        /\ \/ IsFile(c) /\ is_supported_file(config, c)
           \/ IsDir(c)}

(* C3: a recursive listing with max_depth 0 gives exactly the response of  *)
(* the non-recursive listing of the same directory: the direct children    *)
(* and nothing deeper.                                                     *)
C3_DepthZeroIsFlatListing ==
    (last.op = "list_directory" /\ last.args.recursive /\ last.args.max_depth = 0)
    => LET flat == list_directory(config, err, last.args.path, FALSE, DefaultMaxDepth)
       IN  /\ last.outcome = flat.outcome
           /\ last.value = flat.value
           /\ \A i \in 1..Len(last.value) : Depth(last.value[i]) = 1
           /\ (Ok(last) /\ err = NoErr)
                => {last.value[i].path : i \in 1..Len(last.value)}
                     = DirectChildren(ResolvedArg(last))

(* a recursive listing of /r with max_depth 0 that returns the directory   *)
(* /r/d, which has children of its own                                     *)
C3_Witness ==
    /\ last.op = "list_directory"
    /\ last.args.recursive
    /\ last.args.max_depth = 0
    /\ Ok(last)
    /\ \E i \in 1..Len(last.value) :
          /\ last.value[i].type = "directory"
          /\ last.value[i].path = <<"r", "d">>
          /\ Iterdir(<<"r", "d">>) # <<>>

(* C11: the response of a non-recursive listing does not depend on         *)
(* max_depth, negative values included: it is the response of the same     *)
(* call with the default max_depth, and when no system call fails its      *)
(* entries are exactly the non-ignored direct children that are supported  *)
(* files or directories.                                                   *)
C11_FlatListingIgnoresMaxDepth ==
    (last.op = "list_directory" /\ ~last.args.recursive)
    => LET default == list_directory(config, err, last.args.path, FALSE, DefaultMaxDepth)
       IN  /\ last.outcome = default.outcome
           /\ last.value = default.value
           /\ (Ok(last) /\ err = NoErr)
                => {last.value[i].path : i \in 1..Len(last.value)}
                     = DirectChildren(ResolvedArg(last))

(* the same search with a cap that this tree never reaches *)
Uncapped(call, e) ==
    search_files(config, e, call.args.pattern, call.args.path, call.args.content_search,
                 DefaultMaxResults)

(* C4: a search returns at most max_results results over all roots         *)
(* together, and they are the first max_results of the results the search  *)
(* gives without the cap: nothing is added once the cap is reached.        *)
C4_AtMostMaxResults ==
    (last.op = "search_files" /\ Ok(last))
    => /\ Len(last.value) <= last.args.max_results
       /\ Ok(Uncapped(last, err))
            => last.value = Take(Uncapped(last, err).value, last.args.max_results)

(* a search of all roots cut by the cap after results of two roots *)
C4_Witness ==
    /\ last.op = "search_files"
    /\ last.args.path = NoDirectory
    /\ Ok(last)
    /\ Len(last.value) = last.args.max_results
    /\ Len(Uncapped(last, err).value) > last.args.max_results
    /\ \E i, j \in 1..Len(last.value) : last.value[i].path[1] # last.value[j].path[1]

(* C5: no path that matches an ignore pattern is served: read_file and     *)
(* the file resource fail on it, and no entry of a listing or of a search  *)
(* has such a path.                                                        *)
C5_IgnoredNeverServed ==
    /\ (last.op \in {"read_file", "read_file_resource"}
          /\ MatchesIgnorePattern(ResolvedArg(last)))
       => ~Ok(last)
    /\ (last.op \in {"read_file", "read_file_resource", "list_directory", "search_files"}
          /\ Ok(last))
       => \A i \in 1..Len(last.value) : ~MatchesIgnorePattern(last.value[i].path)

(* read_file of /r/ig/c.t, inside the root /r and with a supported         *)
(* extension, fails because the path matches an ignore pattern             *)
C5_Witness ==
    /\ last.op = "read_file"
    /\ ResolvedArg(last) = <<"r", "ig", "c.t">>
    /\ ~Outside(ResolvedArg(last))
    /\ is_supported_file(config, ResolvedArg(last))
    /\ MatchesIgnorePattern(ResolvedArg(last))
    /\ last.outcome = "Ignored"

Min(a, b) == IF a <= b THEN a ELSE b

(* the numbers of the lines of content that contain query, case ignored *)
HitLines(content, query) ==
    {n \in 1..Len(SplitLines(content)) :
        Contains(LowerStr(SplitLines(content)[n]), LowerStr(query))}

(* C6: with a non-empty content query, every result is a file of which at  *)
(* least one line contains the query, case ignored, and carries between 1  *)
(* and 5 matches: the first matching lines in file order, each with its    *)
(* 1-indexed line number and the stripped line cut to 200 characters.      *)
C6_ContentMatches ==
    (last.op = "search_files" /\ last.args.content_search # <<>> /\ Ok(last))
    => \A i \in 1..Len(last.value) :
          LET r == last.value[i]
              text == Stat(r.path).content
              hits == HitLines(text, last.args.content_search)
          IN  /\ hits # {}
              /\ Len(r.matches) >= 1
              /\ Len(r.matches) = Min(MaxMatchingLines, Cardinality(hits))
              /\ \A m \in 1..Len(r.matches) :
                    /\ r.matches[m].line_number \in hits
                    /\ Cardinality({h \in hits : h < r.matches[m].line_number}) = m - 1
                    /\ r.matches[m].content
                         = Take(Strip(SplitLines(text)[r.matches[m].line_number]),
                                MaxLineContent)

(* the call of the last response, made again on a file system where no     *)
(* system call fails; a search without the cap                             *)
WithoutError(call) ==
    IF call.op = "list_directory"
    THEN list_directory(config, NoErr, call.args.path, call.args.recursive,
                        call.args.max_depth)
    ELSE Uncapped(call, NoErr)

(* the entries of the error-free response that are not the failing node    *)
(* nor below it                                                            *)
Unaffected(entries) ==
    LET Clear(entry) == ~Within(Resolve(entry.path), err.node)
    IN  SelectSeq(entries, Clear)

(* C10: a failing system call on one entry never aborts a listing or a     *)
(* search and removes only that entry (that subtree) from the response:    *)
(* every other entry the call returns without the failure is returned, up  *)
(* to the cap of a search.                                                 *)
C10_ErrorRemovesOnlyThatEntry ==
    (last.op \in {"list_directory", "search_files"} /\ err # NoErr
        /\ Ok(WithoutError(last)))
    => /\ Ok(last)
       /\ LET kept == Unaffected(WithoutError(last).value)
              room == last.args.max_results
                        - (Len(last.value) - Len(Unaffected(last.value)))
              due == IF last.op = "search_files" THEN Take(kept, room) ELSE kept
          IN  Range(due) \subseteq Range(last.value)

(***************************************************************************)
(* Properties of the Config Provider.                                      *)
(***************************************************************************)
IsFullConfiguration(value) ==
    value.type = "dict" /\ RequiredKeys \subseteq DOMAIN value.items

(* C7: in a sequence of load_config() calls, once a call has returned no   *)
(* later call reads the source, builds the default or writes the cache,    *)
(* and every later call returns what that call returned, whatever happens  *)
(* to the source in between; the cache is written at most once.            *)
C7_InitialisedOnce ==
    /\ writes <= 1
    /\ \A i, j \in 1..Len(seen) :
          (i < j /\ ~seen[i].raised)
          => /\ seen[j].read = 0
             /\ seen[j].wrote = 0
             /\ ~seen[j].raised
             /\ seen[j].value = seen[i].value

(* C9: a load_config() call either returns a Configuration with the keys   *)
(* allowed_directories, ignore_patterns and supported_extensions, or       *)
(* raises and leaves the cache unset; the cache never holds anything but   *)
(* such a Configuration.                                                   *)
C9_FullConfigurationOrError ==
    /\ \A i \in 1..Len(seen) :
          \/ ~seen[i].raised /\ IsFullConfiguration(seen[i].value)
          \/ seen[i].raised /\ seen[i].cache = PyNone
    /\ config = PyNone \/ IsFullConfiguration(config)

(* C8: under every interleaving of concurrent first calls the source is    *)
(* read at most once, the cache is written at most once, and the calls     *)
(* that returned all returned the same Configuration.                      *)
C8_ConcurrentInitOnce ==
    /\ reads <= 1
    /\ writes <= 1
    /\ \A t, u \in Threads : (pc[t] = "done" /\ pc[u] = "done") => ret[t] = ret[u]

====
